---- MODULE Spec2Model ----
(***************************************************************************)
(* The ExamamtEo backend: an express server whose handlers /signup,        *)
(* /login, /SrDashboard, /Jrdashboard and /explore run parameterised SQL   *)
(* against the tables users_auth and files of one PostgreSQL connection.   *)
(*                                                                         *)
(* The repository holds the server in variants.  src/unnamed/part_000 and  *)
(* src/server.js share /signup and /login word for word and differ in      *)
(* /SrDashboard, /Jrdashboard and /explore; variable `variant` says which  *)
(* program is deployed.                                                    *)
(*                                                                         *)
(* A handler is an async function: it runs atomically from one await to    *)
(* the next.  An await of db.query is one action: the database executes    *)
(* the statement and the handler runs on to its next await (or to its      *)
(* response).  bcrypt.hash and bcrypt.compare touch no shared state, so    *)
(* the code after them is folded into the action that precedes them.       *)
(***************************************************************************)
EXTENDS Integers, Sequences, FiniteSets, TLC

VARIABLES
    variant,      \* which server file is running
    users_auth,   \* table users_auth: sequence of rows, in insertion order
    files,        \* table files: sequence of rows, in insertion order
    reqs          \* the requests received so far, in arrival order

vars == <<variant, users_auth, files, reqs>>

----------------------------------------------------------------------------
(* Bounds and input domains *)

\* Requests received in one run.
MaxReq == 2

Variants == {"part_000", "server.js"}

Emails == {"e1", "e2"}
Passwords == {"p1", "p2"}
Salts == {"s1", "s2"}
Seniors == {"alice", "bob"}
Subjects == {"math", "phys"}
\* (driveLink, OtherLink) of a publish
LinkPairs == {<<"linkA", "other1">>, <<"linkB", "other2">>}

\* A field that is missing from the body, or empty: falsy in JavaScript.
Blank == ""

\* !x of the handlers, on a string field
Falsy(x) == x = Blank

Range(s) == {s[k] : k \in 1..Len(s)}

----------------------------------------------------------------------------
(* bcrypt *)

\* bcrypt.hash(data, saltRounds): a salted one-way hash; the salt is drawn
\* at random by the library and kept inside the hash string.
BcryptHash(data, salt) == <<"$2b$10", salt, data>>

\* bcrypt.compare(data, hash): hash data with the salt of `hash`, compare.
BcryptCompare(data, hash) == BcryptHash(data, hash[2]) = hash

----------------------------------------------------------------------------
(* Requests and responses *)

\* res.status(code).json(body)
Response(code, body) == [status |-> code, body |-> body]

\* A request as it enters its handler.  found and hashed are the handler's
\* locals, resp the responses it has sent.  History, read by no handler:
\* calls counts its db.query calls, error is what its catch block caught,
\* pending is the set of requests still being served when it arrived.
NewReq(route, body) ==
    [route |-> route, body |-> body, pc |-> "start", found |-> FALSE,
     hashed |-> <<>>, resp |-> <<>>, calls |-> 0, error |-> "none",
     pending |-> {k \in 1..Len(reqs) : reqs[k].pc # "done"}]

\* The handler sends a response and returns.
Respond(r, code, body) ==
    [r EXCEPT !.resp = Append(@, Response(code, body)), !.pc = "done"]

\* The handler calls db.query and awaits it at `pc`.
Await(r, pc) == [r EXCEPT !.pc = pc, !.calls = @ + 1]

Done(i) == reqs[i].pc = "done"

Status(i) == reqs[i].resp[1].status

Body(i) == reqs[i].resp[1].body

----------------------------------------------------------------------------
(* Table users_auth *)

\* The row a successful INSERT INTO users_auth adds; id is the serial key.
UserRow(rows, name, email, hashed, role) ==
    [id |-> Len(rows) + 1, name |-> name, email |-> email,
     password |-> hashed, role |-> role]

\* SELECT * FROM users_auth WHERE email = $1
SelectUsersByEmail(rows, email) == SelectSeq(rows, LAMBDA u : u.email = email)

\* The UNIQUE constraint on users_auth.email: an INSERT of an email that a
\* row already holds is rejected by the database.
EmailUniqueOk(rows, email) == \A k \in 1..Len(rows) : rows[k].email # email

----------------------------------------------------------------------------
(* POST /signup *)

SignupBodies ==
    LET valid == [name : {"n1"}, email : Emails, password : Passwords,
                  role : {"senior"}]
        base == [name |-> "n1", email |-> "e1", password |-> "p1",
                 role |-> "senior"]
    IN  valid \cup {[base EXCEPT !.name = Blank], [base EXCEPT !.email = Blank],
                    [base EXCEPT !.password = Blank],
                    [base EXCEPT !.role = Blank]}

SignupValid(b) ==
    ~(Falsy(b.name) \/ Falsy(b.email) \/ Falsy(b.password) \/ Falsy(b.role))

\* The handler up to its first await.
SignupStart(r) ==
    IF ~SignupValid(r.body)
        THEN Respond(r, 400, [message |-> "All fields are required"])
        ELSE Await(r, "select")

\* The catch block of each handler.
CatchBody(route) ==
    CASE route = "signup" -> [message |-> "Server error"]
      [] route \in {"login", "SrDashboard"} -> [error |-> "Internal Server Error"]
      [] OTHER -> [error |-> "Database Error"]

\* A catch block that logs the error and sends nothing.
CatchSilent(r, err) == [r EXCEPT !.error = err, !.pc = "done"]

Catch(r, err) == Respond([r EXCEPT !.error = err], 500, CatchBody(r.route))

\* The handler without its check of existingUser.rows.
SignupOnSelectUnchecked(r, existingUser, salt) ==
    Await([r EXCEPT !.hashed = BcryptHash(r.body.password, salt)], "insert")

\* The handler from the result of the SELECT to the await of the INSERT.
SignupOnSelect(r, existingUser, salt) ==
    IF Len(existingUser) > 0
        THEN Respond(r, 400, [message |-> "Email already exists"])
        ELSE Await([r EXCEPT !.hashed = BcryptHash(r.body.password, salt)],
                   "insert")

\* The handler with the INSERT not awaited: it answers 201 whatever the
\* database says.
SignupOnInsertUnawaited(r, rejected) ==
    Respond(r, 201, [message |-> "User registered successfully!"])

\* The handler from the outcome of the INSERT to its response: the await
\* throws into the catch block when the database rejects the row.
SignupOnInsert(r, rejected) ==
    IF rejected THEN Catch(r, "unique_violation")
    ELSE Respond(r, 201, [message |-> "User registered successfully!"])

SignupArrive(b) ==
    /\ Len(reqs) < MaxReq
    /\ reqs' = Append(reqs, SignupStart(NewReq("signup", b)))
    /\ UNCHANGED <<variant, users_auth, files>>

SignupSelect(i) ==
    /\ reqs[i].route = "signup" /\ reqs[i].pc = "select"
    /\ \E salt \in Salts :
        reqs' = [reqs EXCEPT ![i] =
            SignupOnSelect(@, SelectUsersByEmail(users_auth, @.body.email), salt)]
    /\ UNCHANGED <<variant, users_auth, files>>

SignupInsert(i) ==
    /\ reqs[i].route = "signup" /\ reqs[i].pc = "insert"
    /\ LET r == reqs[i] IN
        LET ok == EmailUniqueOk(users_auth, r.body.email) IN
        /\ users_auth' =
                IF ok THEN Append(users_auth,
                                UserRow(users_auth, r.body.name, r.body.email,
                                        r.hashed, r.body.role))
                ELSE users_auth
        /\ reqs' = [reqs EXCEPT ![i] = SignupOnInsert(r, ~ok)]
    /\ UNCHANGED <<variant, files>>

----------------------------------------------------------------------------
(* POST /login *)

LoginBodies ==
    [email : Emails, password : Passwords]
        \cup {[email |-> Blank, password |-> "p1"],
              [email |-> "e1", password |-> Blank]}

LoginValid(b) == ~(Falsy(b.email) \/ Falsy(b.password))

LoginStart(r) ==
    IF ~LoginValid(r.body)
        THEN Respond(r, 400, [error |-> "Email and password are required"])
        ELSE Await(r, "select")

\* The 200 body carrying the row as selected.
LoginUserWholeRow(user) == user

\* The user object of the 200 body.
LoginUser(user) ==
    [id |-> user.id, name |-> user.name, email |-> user.email,
     role |-> user.role]

\* The handler from the result of the SELECT to its response.
LoginOnSelect(r, userResult) ==
    IF Len(userResult) = 0
        THEN Respond(r, 400, [error |-> "User does not exist."])
        ELSE LET user == userResult[1] IN
             IF ~BcryptCompare(r.body.password, user.password)
                THEN Respond(r, 401, [error |-> "Incorrect password."])
                ELSE Respond(r, 200, [message |-> "Login successful!",
                                       user |-> LoginUser(user)])

LoginArrive(b) ==
    /\ Len(reqs) < MaxReq
    /\ reqs' = Append(reqs, LoginStart(NewReq("login", b)))
    /\ UNCHANGED <<variant, users_auth, files>>

LoginSelect(i) ==
    /\ reqs[i].route = "login" /\ reqs[i].pc = "select"
    /\ reqs' = [reqs EXCEPT ![i] =
            LoginOnSelect(@, SelectUsersByEmail(users_auth, @.body.email))]
    /\ UNCHANGED <<variant, users_auth, files>>

----------------------------------------------------------------------------
(* Table files *)

\* The row a successful INSERT INTO files adds.  file_paths is the link
\* collection: part_000 passes the array [driveLink]; server.js passes the
\* bare driveLink, a collection of that one link.
FileRow(rows, username, password, file_paths, links, subject) ==
    [id |-> Len(rows) + 1, username |-> username, password |-> password,
     file_paths |-> file_paths, links |-> links, subject |-> subject]

\* The WHERE clause of /SrDashboard's SELECT and UPDATE in part_000:
\* username = $1 AND password = $2 AND subject = $3
SrWherePart000(b, row) ==
    row.username = b.username /\ row.password = b.password
        /\ row.subject = b.subject

\* The WHERE clause of /SrDashboard's SELECT and UPDATE in server.js:
\* username = $1 AND subject = $2
SrWhereServerJs(b, row) ==
    row.username = b.username /\ row.subject = b.subject

SrWhere(v, b, row) ==
    IF v = "part_000" THEN SrWherePart000(b, row) ELSE SrWhereServerJs(b, row)

\* SET file_paths = array_append(file_paths, $1), links = $2   (part_000)
SrSetPart000(b, row) ==
    [row EXCEPT !.file_paths = Append(@, b.driveLink), !.links = b.OtherLink]

\* SET file_paths = $1, links = $2                              (server.js)
SrSetServerJs(b, row) ==
    [row EXCEPT !.file_paths = <<b.driveLink>>, !.links = b.OtherLink]

SrSet(v, b, row) ==
    IF v = "part_000" THEN SrSetPart000(b, row) ELSE SrSetServerJs(b, row)

\* UPDATE files SET ... WHERE ...: every row the WHERE clause matches.
SrUpdate(v, rows, b) ==
    [k \in 1..Len(rows) |->
        IF SrWhere(v, b, rows[k]) THEN SrSet(v, b, rows[k]) ELSE rows[k]]

\* An INSERT that first deletes the rows of the (username, subject) pair.
SrInsertReplacing(v, rows, b, hashed) ==
    Append(SelectSeq(rows, LAMBDA row : ~SrWhereServerJs(b, row)),
        FileRow(rows, b.username, IF v = "part_000" THEN b.password ELSE hashed,
                <<b.driveLink>>, b.OtherLink, b.subject))

\* INSERT INTO files (username, password, file_paths, links, subject):
\* part_000 stores the password as sent, server.js its bcrypt hash.
SrInsert(v, rows, b, hashed) ==
    Append(rows,
        FileRow(rows, b.username, IF v = "part_000" THEN b.password ELSE hashed,
                <<b.driveLink>>, b.OtherLink, b.subject))

----------------------------------------------------------------------------
(* POST /SrDashboard *)

SrBodies ==
    LET valid == {[username |-> u, password |-> p, subject |-> s,
                   driveLink |-> l[1], OtherLink |-> l[2]] :
                    u \in Seniors, p \in Passwords, s \in Subjects,
                    l \in LinkPairs}
        base == [username |-> "alice", password |-> "p1", subject |-> "math",
                 driveLink |-> "linkA", OtherLink |-> "other1"]
    IN  valid \cup {[base EXCEPT !.username = Blank],
                    [base EXCEPT !.password = Blank],
                    [base EXCEPT !.subject = Blank],
                    [base EXCEPT !.driveLink = Blank],
                    [base EXCEPT !.OtherLink = Blank]}

SrValid(b) ==
    ~(Falsy(b.username) \/ Falsy(b.password) \/ Falsy(b.subject)
        \/ Falsy(b.driveLink) \/ Falsy(b.OtherLink))

\* The handler up to the await of its SELECT; server.js hashes the password
\* on the way.
SrStart(v, r, salt) ==
    IF ~SrValid(r.body)
        THEN Respond(r, 400, [error |-> "Please fill all fields."])
        ELSE Await([r EXCEPT !.hashed =
                        IF v = "part_000" THEN <<>>
                        ELSE BcryptHash(r.body.password, salt)],
                   "select")

\* The handler from the result of the SELECT to the await of the UPDATE or
\* the INSERT.
SrOnSelect(r, existingFile) ==
    Await([r EXCEPT !.found = Len(existingFile) > 0], "write")

\* The handler after the UPDATE or INSERT has succeeded.
SrOnWrite(r) ==
    Respond(r, 200, [message |-> "Drive link saved successfully",
                     driveLink |-> r.body.driveLink])

SrArrive(b) ==
    /\ Len(reqs) < MaxReq
    /\ \E salt \in Salts :
        reqs' = Append(reqs, SrStart(variant, NewReq("SrDashboard", b), salt))
    /\ UNCHANGED <<variant, users_auth, files>>

SrSelect(i) ==
    /\ reqs[i].route = "SrDashboard" /\ reqs[i].pc = "select"
    /\ reqs' = [reqs EXCEPT ![i] =
            SrOnSelect(@, SelectSeq(files,
                LAMBDA row : SrWhere(variant, reqs[i].body, row)))]
    /\ UNCHANGED <<variant, users_auth, files>>

SrWrite(i) ==
    /\ reqs[i].route = "SrDashboard" /\ reqs[i].pc = "write"
    /\ LET r == reqs[i] IN
        /\ files' = IF r.found THEN SrUpdate(variant, files, r.body)
                    ELSE SrInsert(variant, files, r.body, r.hashed)
        /\ reqs' = [reqs EXCEPT ![i] = SrOnWrite(r)]
    /\ UNCHANGED <<variant, users_auth>>

----------------------------------------------------------------------------
(* GET /Jrdashboard and GET /explore *)

JrQueries == [seniorname : Seniors \cup {Blank},
              subjectname : Subjects \cup {Blank}]

ExploreQueries == [subjectname : Subjects \cup {Blank}]

\* /Jrdashboard's check of its query parameters: part_000 wants one of the
\* two, server.js wants seniorname.
JrValid(v, q) ==
    IF v = "part_000" THEN ~(Falsy(q.seniorname) /\ Falsy(q.subjectname))
    ELSE ~Falsy(q.seniorname)

JrInvalidBody(v) ==
    IF v = "part_000"
        THEN [error |-> "At least one of senior name or subject name is required"]
        ELSE [error |-> "Senior name is required"]

\* The query /Jrdashboard builds in part_000:
\* WHERE 1=1 [AND username = $n] [AND subject = $n]
JrWherePart000(q, row) ==
    /\ ~Falsy(q.seniorname) => row.username = q.seniorname
    /\ ~Falsy(q.subjectname) => row.subject = q.subjectname

\* The query of /Jrdashboard in server.js: WHERE username = $1
JrWhereServerJs(q, row) == row.username = q.seniorname

JrWhere(v, q, row) ==
    IF v = "part_000" THEN JrWherePart000(q, row) ELSE JrWhereServerJs(q, row)

\* The query /explore builds in part_000: [WHERE subject = $1]
ExploreWherePart000(q, row) ==
    ~Falsy(q.subjectname) => row.subject = q.subjectname

\* The query of /explore in server.js: SELECT * FROM files
ExploreWhereServerJs(q, row) == TRUE

ExploreWhere(v, q, row) ==
    IF v = "part_000" THEN ExploreWherePart000(q, row)
    ELSE ExploreWhereServerJs(q, row)

JrNotFoundBody(v) ==
    IF v = "part_000"
        THEN [error |-> "No files found for the specified criteria"]
        ELSE [error |-> "No files found for the specified senior"]

JrStart(v, r) ==
    IF ~JrValid(v, r.body) THEN Respond(r, 400, JrInvalidBody(v))
    ELSE Await(r, "query")

ExploreStart(r) == Await(r, "query")

\* Both handlers from the result of their SELECT to the response.
OnQuery(r, rows, notFound) ==
    IF Len(rows) = 0 THEN Respond(r, 404, notFound)
    ELSE Respond(r, 200, [files |-> rows])

JrArrive(q) ==
    /\ Len(reqs) < MaxReq
    /\ reqs' = Append(reqs, JrStart(variant, NewReq("Jrdashboard", q)))
    /\ UNCHANGED <<variant, users_auth, files>>

JrQuery(i) ==
    /\ reqs[i].route = "Jrdashboard" /\ reqs[i].pc = "query"
    /\ reqs' = [reqs EXCEPT ![i] =
            OnQuery(@, SelectSeq(files,
                        LAMBDA row : JrWhere(variant, reqs[i].body, row)),
                    JrNotFoundBody(variant))]
    /\ UNCHANGED <<variant, users_auth, files>>

ExploreArrive(q) ==
    /\ Len(reqs) < MaxReq
    /\ reqs' = Append(reqs, ExploreStart(NewReq("explore", q)))
    /\ UNCHANGED <<variant, users_auth, files>>

ExploreQuery(i) ==
    /\ reqs[i].route = "explore" /\ reqs[i].pc = "query"
    /\ reqs' = [reqs EXCEPT ![i] =
            OnQuery(@, SelectSeq(files,
                        LAMBDA row : ExploreWhere(variant, reqs[i].body, row)),
                    [error |-> "No files found"])]
    /\ UNCHANGED <<variant, users_auth, files>>

----------------------------------------------------------------------------
(* A store call that fails *)

\* db.query rejects (the connection is lost, the statement errors): the
\* statement has no effect and the handler's catch block answers.
DbFault(i) ==
    /\ reqs[i].pc \in {"select", "insert", "write", "query"}
    /\ reqs' = [reqs EXCEPT ![i] = Catch(@, "fault")]
    /\ UNCHANGED <<variant, users_auth, files>>

----------------------------------------------------------------------------
(* Specifications *)

Init ==
    /\ variant \in Variants
    /\ users_auth = <<>>
    /\ files = <<>>
    /\ reqs = <<>>

NextAuth ==
    \/ \E b \in SignupBodies : SignupArrive(b)
    \/ \E b \in LoginBodies : LoginArrive(b)
    \/ \E i \in 1..Len(reqs) : SignupSelect(i)
    \/ \E i \in 1..Len(reqs) : SignupInsert(i)
    \/ \E i \in 1..Len(reqs) : LoginSelect(i)
    \/ \E i \in 1..Len(reqs) : DbFault(i)

SpecAuth == Init /\ [][NextAuth]_vars

NextFiles ==
    \/ \E b \in SrBodies : SrArrive(b)
    \/ \E q \in JrQueries : JrArrive(q)
    \/ \E q \in ExploreQueries : ExploreArrive(q)
    \/ \E i \in 1..Len(reqs) : SrSelect(i)
    \/ \E i \in 1..Len(reqs) : SrWrite(i)
    \/ \E i \in 1..Len(reqs) : JrQuery(i)
    \/ \E i \in 1..Len(reqs) : ExploreQuery(i)
    \/ \E i \in 1..Len(reqs) : DbFault(i)

SpecFiles == Init /\ [][NextFiles]_vars

\* All five routes together, on the inputs that name the first email,
\* password, senior and subject (or leave the field blank).
First(x) == x \in {Blank, "e1", "p1", "alice", "math"}

Next ==
    \/ \E b \in {x \in SignupBodies : First(x.email) /\ First(x.password)} :
            SignupArrive(b)
    \/ \E b \in {x \in LoginBodies : First(x.email)} : LoginArrive(b)
    \/ \E b \in {x \in SrBodies : First(x.username) /\ First(x.password)
                                    /\ First(x.subject)} : SrArrive(b)
    \/ \E q \in {x \in JrQueries : First(x.seniorname)} : JrArrive(q)
    \/ \E q \in {x \in ExploreQueries : First(x.subjectname)} : ExploreArrive(q)
    \/ \E i \in 1..Len(reqs) : SignupSelect(i)
    \/ \E i \in 1..Len(reqs) : SignupInsert(i)
    \/ \E i \in 1..Len(reqs) : LoginSelect(i)
    \/ \E i \in 1..Len(reqs) : SrSelect(i)
    \/ \E i \in 1..Len(reqs) : SrWrite(i)
    \/ \E i \in 1..Len(reqs) : JrQuery(i)
    \/ \E i \in 1..Len(reqs) : ExploreQuery(i)
    \/ \E i \in 1..Len(reqs) : DbFault(i)

Spec == Init /\ [][Next]_vars

\* Every db.query a handler awaits returns or fails in the end.
Progress(i) ==
    /\ i \in 1..Len(reqs)
    /\ \/ SignupSelect(i) \/ SignupInsert(i) \/ LoginSelect(i) \/ SrSelect(i)
       \/ SrWrite(i) \/ JrQuery(i) \/ ExploreQuery(i) \/ DbFault(i)

FairSpec == Spec /\ \A i \in 1..MaxReq : WF_vars(Progress(i))

----------------------------------------------------------------------------
(* Vocabulary of the properties *)

Reqs == 1..Len(reqs)

\* The requests so far ran one at a time: none arrived while another was
\* being served.
Serial == \A i \in Reqs : reqs[i].pending = {}

\* Request j arrived while request i was being served.
Overlap(i, j) == i \in reqs[j].pending

\* Request i acts in this step: it arrives, or its handler runs on.
Acts(i) == i \in 1..Len(reqs') /\ (i > Len(reqs) \/ reqs'[i] # reqs[i])

\* Request i is answered in this step.
Answered(i) ==
    /\ Acts(i)
    /\ i > Len(reqs) \/ reqs[i].pc # "done"
    /\ reqs'[i].pc = "done"

Created(i) ==
    reqs[i].route = "signup" /\ Done(i) /\ Len(reqs[i].resp) = 1
        /\ Status(i) = 201

AccountsOf(email) == {k \in 1..Len(users_auth) : users_auth[k].email = email}

Published(i) ==
    reqs[i].route = "SrDashboard" /\ Done(i) /\ Len(reqs[i].resp) = 1
        /\ Status(i) = 200

RowsOf(username, subject) ==
    {k \in 1..Len(files) :
        files[k].username = username /\ files[k].subject = subject}

\* The successful publishes to (username, subject), in arrival order.
PublishesTo(username, subject) ==
    SelectSeq([i \in Reqs |-> i],
        LAMBDA i : Published(i) /\ reqs[i].body.username = username
                    /\ reqs[i].body.subject = subject)

\* The rows of files that satisfy every filter a query supplies.
Matching(q) ==
    {row \in Range(files) :
        /\ ("seniorname" \in DOMAIN q /\ q.seniorname # Blank)
                => row.username = q.seniorname
        /\ q.subjectname # Blank => row.subject = q.subjectname}

IsQuery(i) == reqs'[i].route \in {"Jrdashboard", "explore"}

NoFilter(q) ==
    /\ "seniorname" \in DOMAIN q => q.seniorname = Blank
    /\ q.subjectname = Blank

----------------------------------------------------------------------------
(* C1: publishes run one at a time.  The first publish to an (owner,       *)
(* subject) pair creates exactly one record with link collection           *)
(* [driveLink] and other-link OtherLink; a second publish to the pair      *)
(* leaves exactly one record, whose link collection is the first link      *)
(* followed by the second and whose other-link is the second OtherLink.    *)
(* Stated for every run of publishes to one pair: one record, holding the  *)
(* published links in order and the last OtherLink.                        *)
C1_PublishAppends ==
    Serial =>
        \A u \in Seniors, s \in Subjects :
            LET pubs == PublishesTo(u, s) IN
            Len(pubs) > 0 =>
                /\ Cardinality(RowsOf(u, s)) = 1
                /\ \A k \in RowsOf(u, s) :
                    /\ files[k].file_paths =
                            [n \in 1..Len(pubs) |-> reqs[pubs[n]].body.driveLink]
                    /\ files[k].links = reqs[pubs[Len(pubs)]].body.OtherLink

(* C2: after valid publishes run one at a time, with any username,         *)
(* password, subject, driveLink and OtherLink, files holds at most one     *)
(* row for each (username, subject) pair.                                  *)
C2_OneRowPerPair ==
    Serial =>
        \A u \in Seniors, s \in Subjects : Cardinality(RowsOf(u, s)) <= 1

(* C3: two publishes to one (owner, subject) pair with different           *)
(* driveLinks overlap; once both have answered with success, both          *)
(* driveLinks are in the stored records of the pair.                       *)
C3_NoLinkDropped ==
    \A i \in Reqs, j \in Reqs :
        (/\ Overlap(i, j) /\ Published(i) /\ Published(j)
         /\ reqs[i].body.username = reqs[j].body.username
         /\ reqs[i].body.subject = reqs[j].body.subject
         /\ reqs[i].body.driveLink # reqs[j].body.driveLink)
        => {reqs[i].body.driveLink, reqs[j].body.driveLink} \subseteq
            UNION {Range(files[k].file_paths) :
                    k \in RowsOf(reqs[i].body.username, reqs[i].body.subject)}

----------------------------------------------------------------------------
(* C4: signups run one at a time.  A signup with all four fields set and   *)
(* an email not yet in users_auth inserts one row and is answered 201;     *)
(* every later signup with that email is answered 400 "Email already       *)
(* exists" and inserts nothing, so the email has exactly one account.      *)
(* (A signup whose db.query was lost to a store fault is answered 500.)    *)
C4_SignupOnce ==
    Serial =>
        /\ \A i \in Reqs :
            (/\ reqs[i].route = "signup" /\ Done(i)
             /\ SignupValid(reqs[i].body) /\ reqs[i].error # "fault")
            => /\ Len(reqs[i].resp) = 1
               /\ IF \E j \in 1..(i - 1) :
                        Created(j) /\ reqs[j].body.email = reqs[i].body.email
                    THEN /\ Status(i) = 400
                         /\ Body(i) = [message |-> "Email already exists"]
                    ELSE /\ Status(i) = 201
                         /\ Cardinality(AccountsOf(reqs[i].body.email)) = 1
        /\ \A e \in Emails :
            Cardinality(AccountsOf(e)) =
                Cardinality({i \in Reqs : Created(i) /\ reqs[i].body.email = e})

C4_Witness ==
    /\ Serial /\ Len(reqs) = 2
    /\ Created(1)
    /\ reqs[2].route = "signup" /\ Done(2)
    /\ reqs[2].body.email = reqs[1].body.email
    /\ Status(2) = 400 /\ Body(2) = [message |-> "Email already exists"]
    /\ Len(users_auth) = 1

C6_LoginOutcome ==
    [][\A i \in Reqs :
        (/\ reqs[i].route = "login" /\ LoginValid(reqs[i].body)
         /\ Answered(i) /\ reqs'[i].error = "none")
        => LET b == reqs[i].body
               accounts == AccountsOf(b.email)
               verifies == \E k \in accounts :
                                BcryptCompare(b.password, users_auth[k].password)
               res == reqs'[i].resp[1]
           IN  /\ Len(reqs'[i].resp) = 1
               /\ res.status \in {200, 400, 401}
               /\ res.status = 400 <=> accounts = {}
               /\ res.status = 401 <=> (accounts # {} /\ ~verifies)
               /\ res.status = 200 <=> verifies
               /\ res.status = 200 =>
                    \E k \in accounts :
                        /\ DOMAIN res.body.user = {"id", "name", "email", "role"}
                        /\ \A f \in DOMAIN res.body.user :
                                res.body.user[f] = users_auth[k][f]
      ]_vars

C6_Witness ==
    \E i \in Reqs :
        /\ reqs[i].route = "login" /\ Done(i) /\ Status(i) = 200
        /\ \E k \in AccountsOf(reqs[i].body.email) :
            Body(i).user.id = users_auth[k].id

----------------------------------------------------------------------------
(* C7: when /Jrdashboard or /explore answers 200, its files list is        *)
(* exactly the stored rows that satisfy every filter supplied; /explore    *)
(* without a filter returns every stored row, and /Jrdashboard with        *)
(* neither filter answers 400 without querying the store.                  *)
C7_QueryResult ==
    [][\A i \in 1..Len(reqs') :
        (IsQuery(i) /\ Answered(i)) =>
            LET q == reqs'[i].body
                res == reqs'[i].resp[1]
            IN  /\ res.status = 200 => Range(res.body.files) = Matching(q)
                /\ (reqs'[i].route = "explore" /\ NoFilter(q)
                        /\ res.status = 200)
                    => Range(res.body.files) = Range(files)
                /\ (reqs'[i].route = "Jrdashboard" /\ NoFilter(q))
                    => res.status = 400 /\ reqs'[i].calls = 0
      ]_vars

(* C8: a /Jrdashboard or /explore request whose filters match no stored    *)
(* row (also /explore on an empty table) is answered 404 "no files         *)
(* found": not 500, and not 200 with an empty list.  (Read with the store  *)
(* answering, and for /Jrdashboard with a filter supplied.)                *)
C8_NoMatchIs404 ==
    [][\A i \in 1..Len(reqs') :
        (/\ IsQuery(i) /\ Answered(i) /\ reqs'[i].error = "none"
         /\ reqs'[i].route = "Jrdashboard" => ~NoFilter(reqs'[i].body)
         /\ Matching(reqs'[i].body) = {})
        => reqs'[i].resp[1].status = 404
      ]_vars

----------------------------------------------------------------------------
(* C9: every request to the five routes is answered in the end, exactly    *)
(* once, whatever the interleaving, as long as each store call returns or  *)
(* fails; when a store call of the handler fails, that one response is     *)
(* the 500 and the handler makes no further store call.                    *)
C9_AnsweredOnce ==
    /\ []<>(\A i \in Reqs : Done(i) /\ Len(reqs[i].resp) = 1)
    /\ [](\A i \in Reqs :
            /\ Len(reqs[i].resp) <= 1
            /\ Done(i) <=> Len(reqs[i].resp) = 1
            /\ reqs[i].error # "none" => Done(i) /\ Status(i) = 500)
    /\ [][\A i \in Reqs :
            /\ Done(i) => reqs'[i] = reqs[i]
            /\ reqs'[i].error # "none" =>
                    reqs'[i].calls = reqs[i].calls /\ reqs[i].calls > 0
       ]_vars

C9_Witness ==
    /\ Len(reqs) = 2 /\ Overlap(1, 2)
    /\ Done(1) /\ Done(2)
    /\ reqs[1].error = "fault" /\ Status(1) = 500
    /\ reqs[2].error = "none" /\ Status(2) \in {200, 201}

----------------------------------------------------------------------------
(* C10: no operation deletes a row of users_auth or files or modifies a    *)
(* row of users_auth.  /login, /Jrdashboard and /explore leave both        *)
(* tables as they are, and so does every request answered 400 or 404;      *)
(* /signup changes the state only by adding one row to users_auth;         *)
(* /SrDashboard changes only files.                                        *)
C10_Frame ==
    [][/\ Len(users_auth') >= Len(users_auth)
       /\ \A k \in 1..Len(users_auth) : users_auth'[k] = users_auth[k]
       /\ Len(files') >= Len(files)
       /\ \A k \in 1..Len(files) : files'[k].id = files[k].id
       /\ \A i \in 1..Len(reqs') :
            Acts(i) =>
                /\ reqs'[i].route \in {"login", "Jrdashboard", "explore"}
                    => users_auth' = users_auth /\ files' = files
                /\ (Answered(i) /\ reqs'[i].resp[1].status \in {400, 404})
                    => users_auth' = users_auth /\ files' = files
                /\ reqs'[i].route = "signup"
                    => /\ files' = files
                       /\ Len(users_auth') <= Len(users_auth) + 1
                /\ reqs'[i].route = "SrDashboard" => users_auth' = users_auth
      ]_vars

\* A signup and a publish have both run: each table holds a row.
C10_Witness ==
    /\ Len(users_auth) = 1 /\ Len(files) = 1
    /\ \E i \in Reqs : Created(i)
    /\ \E i \in Reqs : Published(i)

====
